---- MODULE Spec2Model ----
(***************************************************************************)
(* Model of agent.py, the grocery management script: a top-level script    *)
(* that checks an API key, prepares data/expense_history.json, obtains the *)
(* receipt text (vision model or data/grocery_receipt.md), builds five     *)
(* crew tasks and runs them with crew.kickoff().                           *)
(*                                                                         *)
(* The file system, the environment, the vision model and the LLM are the  *)
(* inputs: the initial file system and environment are drawn from small    *)
(* sets in Init, the answers of the external services with \E in the       *)
(* actions.  File contents and model outputs are concrete texts.           *)
(***************************************************************************)
EXTENDS Naturals, Sequences, FiniteSets, TLC

VARIABLES
    pc,               \* position of the script
    environ,          \* os.environ["GOOGLE_API_KEY"], or Absent
    dotenv,           \* GOOGLE_API_KEY entry of the .env file, or Absent
    GOOGLE_API_KEY,   \* the module-level variable of line 27
    data_dir,         \* TRUE iff the directory data/ exists
    files,            \* content of each file under data/, or Absent
    expense_history,  \* the module-level variable of lines 96/100/106
    receipt_markdown, \* the module-level variable of lines 109-134, 176
    description,      \* receipt text embedded in read_receipt_task.description
    started,          \* tasks the crew has started, in order
    active,           \* tasks being executed right now
    output,           \* raw output of each finished task, or None
    consumed,         \* the context each started task was given
    attempts,         \* number of times the crew has executed each task
    error,            \* the exception that ended the script, or None
    log,              \* console messages printed so far
    writes,           \* paths created or written so far, in order
    calls,            \* external services called so far, in order
    ingest,           \* what happened inside process_receipt_image
    failed,           \* the task whose execution raised, or None
    initial           \* the file system at launch

vars == <<pc, environ, dotenv, GOOGLE_API_KEY, data_dir, files, expense_history,
          receipt_markdown, description, started, active, output, consumed,
          attempts, error, log, writes, calls, ingest, failed, initial>>

(***************************************************************************)
(* Values                                                                  *)
(***************************************************************************)
Absent == "<absent>"          \* no such file / no such environment variable
None == "<None>"              \* Python's None
Unset == [unset |-> TRUE]     \* a name not bound yet

\* Most prior expense entries in a well-formed history file at launch.
MaxPriorExpenses == 2

expense_history_path == "data/expense_history.json"
receipt_image_path == "data/receipt.png"
markdown_path == "data/grocery_receipt.md"
grocery_tracker_path == "data/grocery_tracker.json"
recipe_recommendation_path == "data/recipe_recommendation.json"

Paths == {expense_history_path, receipt_image_path, markdown_path,
          grocery_tracker_path, recipe_recommendation_path}

\* default_expense_history: lists are sequences, dicts are sets of
\* <<key, value>> pairs.
default_expense_history ==
    [expenses |-> <<>>, categories |-> {}, monthly_summaries |-> {}]

\* A file whose bytes (ff fe ...) are not valid in the encoding open() uses.
InvalidBytes == "<bytes ff fe 00>"

(***************************************************************************)
(* json.dump / json.load on the texts of the model                         *)
(***************************************************************************)
\* json.dump(default_expense_history, f, indent=2)
json_dump_default ==
    "{\n  \"expenses\": [],\n  \"categories\": {},\n  \"monthly_summaries\": {}\n}"

RECURSIVE ExpenseItems(_)
ExpenseItems(n) ==
    IF n = 0 THEN ""
    ELSE IF n = 1 THEN "\"e1\""
    ELSE ExpenseItems(n - 1) \o ", \"e" \o ToString(n) \o "\""

\* A well-formed history file holding n expense entries (compact form).
HistoryText(n) ==
    "{\"expenses\": [" \o ExpenseItems(n) \o "], \"categories\": {"
    \o (IF n = 0 THEN "" ELSE "\"Dairy\": " \o ToString(n))
    \o "}, \"monthly_summaries\": {}}"

HistoryDoc(n) ==
    [expenses |-> [i \in 1..n |-> "e" \o ToString(i)],
     categories |-> IF n = 0 THEN {} ELSE {<<"Dairy", n>>},
     monthly_summaries |-> {}]

\* The report the expense-tracking task is asked for (expected_output).
ReportText(amount) ==
    "{\"expense_summary\": {\"total_amount\": " \o ToString(amount)
    \o "}, \"insights\": [], \"price_trends\": []}"

ReportDoc(amount) ==
    [expense_summary |-> {<<"total_amount", amount>>},
     insights |-> <<>>, price_trends |-> <<>>]

ReportAmounts == {4, 7}

MalformedTexts == {"{\"expenses\": [", " ", "Here is the report: total 4"}

\* f.read() of a file opened in text mode
Decodable(text) == text # InvalidBytes

\* open(path, 'r') followed by f.read(): the exception raised, or None.
OpenAndRead(content) ==
    IF content = Absent THEN "FileNotFoundError"
    ELSE IF ~Decodable(content) THEN "UnicodeDecodeError"
    ELSE None

\* json.load(f): [ok |-> TRUE, value |-> doc] or the exception raised.
json_load(text) ==
    IF OpenAndRead(text) # None THEN [ok |-> FALSE, exc |-> OpenAndRead(text)]
    ELSE IF text = json_dump_default
        THEN [ok |-> TRUE, value |-> default_expense_history]
    ELSE IF \E n \in 0..MaxPriorExpenses : text = HistoryText(n)
        THEN [ok |-> TRUE,
              value |-> HistoryDoc(CHOOSE n \in 0..MaxPriorExpenses :
                                       text = HistoryText(n))]
    ELSE IF \E a \in ReportAmounts : text = ReportText(a)
        THEN [ok |-> TRUE,
              value |-> ReportDoc(CHOOSE a \in ReportAmounts : text = ReportText(a))]
    ELSE [ok |-> FALSE, exc |-> "JSONDecodeError"]

(***************************************************************************)
(* markdown.markdown on the texts of the model                             *)
(***************************************************************************)
markdown(text) ==
    CASE text = "" -> ""
      [] text = "\n" -> ""
      [] text = "milk 2" -> "<p>milk 2</p>"
      [] text = "# Receipt" -> "<h1>Receipt</h1>"

(***************************************************************************)
(* Environment                                                             *)
(***************************************************************************)
KeyValues == {Absent, "", "AIzaKey"}

\* load_dotenv(): a .env entry is copied into os.environ unless the
\* variable is already there (override is False).
load_dotenv(env, file) == IF env = Absent THEN file ELSE env

\* os.getenv("GOOGLE_API_KEY")
getenv(env) == IF env = Absent THEN None ELSE env

\* Variant: the test `GOOGLE_API_KEY is None`, which lets an empty key pass.
KeyMissing_NoneOnly(key) == key = None

\* `not GOOGLE_API_KEY`
KeyMissing(key) == key = None \/ key = ""

(***************************************************************************)
(* Initial states                                                          *)
(***************************************************************************)
HistoryFileStates ==
    {Absent, "", json_dump_default, InvalidBytes}
    \cup {HistoryText(n) : n \in 1..MaxPriorExpenses}
    \cup {ReportText(4)}
    \cup MalformedTexts

MarkdownFileStates == {Absent, "", "\n", "milk 2", InvalidBytes}

ImageFileStates == {Absent, "PNG", "not an image"}

InitialFiles ==
    {f \in [Paths -> HistoryFileStates \cup MarkdownFileStates \cup ImageFileStates
                     \cup {"{\"items\": []}"}] :
        /\ f[expense_history_path] \in HistoryFileStates
        /\ f[markdown_path] \in MarkdownFileStates
        /\ f[receipt_image_path] \in ImageFileStates
        /\ f[grocery_tracker_path] \in {Absent, "{\"items\": []}"}
        /\ f[recipe_recommendation_path] = Absent}

TaskNames == {"read_receipt_task", "expiration_date_search_task",
              "grocery_tracking_task", "recipe_recommendation_task",
              "expense_tracking_task"}

Init ==
    /\ pc = "load_dotenv"
    /\ environ \in KeyValues
    /\ dotenv \in KeyValues
    /\ GOOGLE_API_KEY = None
    /\ data_dir \in BOOLEAN
    /\ files \in InitialFiles
    /\ (~data_dir => \A p \in Paths : files[p] = Absent)
    /\ expense_history = Unset
    /\ receipt_markdown = None
    /\ description = None
    /\ started = <<>>
    /\ active = {}
    /\ output = [t \in TaskNames |-> None]
    /\ consumed = [t \in TaskNames |-> <<>>]
    /\ attempts = [t \in TaskNames |-> 0]
    /\ error = None
    /\ log = {}
    /\ writes = <<>>
    /\ calls = <<>>
    /\ ingest = [exc |-> None, text |-> None]
    /\ failed = None
    /\ initial = [data_dir |-> data_dir, files |-> files]

Crash(exc) == pc' = "crashed" /\ error' = exc

pipelineVars == <<description, started, active, output, consumed, attempts>>

(***************************************************************************)
(* Lines 23-39: credentials                                                *)
(***************************************************************************)
LoadDotenv ==
    /\ pc = "load_dotenv"
    /\ environ' = load_dotenv(environ, dotenv)
    /\ pc' = "check_key"
    /\ UNCHANGED <<dotenv, GOOGLE_API_KEY, data_dir, files, expense_history,
                   receipt_markdown, error, log, writes, calls, ingest, failed, initial>>
    /\ UNCHANGED pipelineVars

\* Lines 27-29; the model objects of lines 32-39 are constructed without
\* any request being sent.
CheckKey ==
    /\ pc = "check_key"
    /\ GOOGLE_API_KEY' = getenv(environ)
    /\ IF KeyMissing(getenv(environ))
         THEN Crash("ValueError")
         ELSE pc' = "mkdir" /\ error' = error
    /\ UNCHANGED <<environ, dotenv, data_dir, files, expense_history,
                   receipt_markdown, log, writes, calls, ingest, failed, initial>>
    /\ UNCHANGED pipelineVars

(***************************************************************************)
(* Lines 79-81: data_dir.mkdir(exist_ok=True)                              *)
(***************************************************************************)
Mkdir ==
    /\ pc = "mkdir"
    /\ data_dir' = TRUE
    /\ writes' = IF data_dir THEN writes ELSE Append(writes, "data")
    /\ pc' = "init_history"
    /\ UNCHANGED <<environ, dotenv, GOOGLE_API_KEY, files, expense_history,
                   receipt_markdown, error, log, calls, ingest, failed, initial>>
    /\ UNCHANGED pipelineVars

(***************************************************************************)
(* Lines 83-106: expense history initialisation                            *)
(***************************************************************************)
\* Variant: only the size test, without the exists() test.
MissingOrEmpty_SizeOnly(content) == content = ""

\* Line 92: not exists() or st_size == 0
MissingOrEmpty(content) == content = Absent \/ content = ""

\* The except clause of line 102.
CaughtAtLoad(exc) == exc = "JSONDecodeError"

\* json.load of line 100 on the file's content: the open, the read and the
\* parse, each of which may raise.
LoadHistoryFile(content) == json_load(content)

\* Result of lines 92-106 on a file content: the content left in the file,
\* the value bound to expense_history, what was printed, whether the file
\* was written, and the exception that escapes (None if none).
InitHistory(content) ==
    IF MissingOrEmpty(content)
      THEN [file |-> json_dump_default, value |-> default_expense_history,
            printed |-> {"Created new expense history file with default structure"},
            wrote |-> TRUE, raised |-> None]
    ELSE IF LoadHistoryFile(content).ok
      THEN [file |-> content, value |-> LoadHistoryFile(content).value,
            printed |-> {"Expense history loaded successfully!"},
            wrote |-> FALSE, raised |-> None]
    ELSE IF CaughtAtLoad(LoadHistoryFile(content).exc)
      THEN [file |-> json_dump_default, value |-> default_expense_history,
            printed |-> {"Error: expense_history.json is corrupted. Creating new file..."},
            wrote |-> TRUE, raised |-> None]
    ELSE [file |-> content, value |-> Unset, printed |-> {},
          wrote |-> FALSE, raised |-> LoadHistoryFile(content).exc]

InitExpenseHistory ==
    /\ pc = "init_history"
    /\ LET r == InitHistory(files[expense_history_path]) IN
        /\ files' = [files EXCEPT ![expense_history_path] = r.file]
        /\ expense_history' = r.value
        /\ log' = log \cup r.printed
        /\ writes' = IF r.wrote THEN Append(writes, expense_history_path) ELSE writes
        /\ IF r.raised # None
             THEN Crash(r.raised)
             ELSE pc' = "load_receipt" /\ error' = error
    /\ UNCHANGED <<environ, dotenv, GOOGLE_API_KEY, data_dir, receipt_markdown,
                   calls, ingest, failed, initial>>
    /\ UNCHANGED pipelineVars

(***************************************************************************)
(* Lines 41-77: process_receipt_image                                      *)
(***************************************************************************)
VisionTexts == {"", "\n", "# Receipt"}

\* What vision_model.generate_content / response.text can do: fail, or
\* return a text.
VisionAnswers ==
    {[kind |-> "error", text |-> ""]} \cup {[kind |-> "text", text |-> t] : t \in VisionTexts}

\* Image.open(image_path)
ImageOpens(image) == image = "PNG"

\* Python truthiness of a string or None: `not value`
Falsy(value) == value = None \/ value = ""

\* Variant: an except clause for image decoding errors only.
CaughtInProcess_ImageOnly(exc) == exc = "UnidentifiedImageError"

\* The except clause of line 75: `except Exception`.
CaughtInProcess(exc) == TRUE

\* process_receipt_image on the image content, the vision model's answer and
\* the content of grocery_receipt.md: the value returned, the content of
\* grocery_receipt.md afterwards, what was printed, whether the file was
\* written, whether the vision model was called, the exception raised
\* inside the try block (exc) and the one that escapes (raised).
process_receipt_image(image, answer, md) ==
    LET exc == IF ~ImageOpens(image) THEN "UnidentifiedImageError"
               ELSE IF answer.kind = "error" THEN "VisionCallError"
               ELSE None
    IN  IF exc # None
          THEN [ret |-> None, md |-> md, wrote |-> FALSE,
                called |-> ImageOpens(image), text |-> None, exc |-> exc,
                raised |-> IF CaughtInProcess(exc) THEN None ELSE exc,
                printed |-> IF CaughtInProcess(exc)
                              THEN {"Error processing receipt image"} ELSE {}]
        ELSE [ret |-> answer.text, md |-> answer.text, wrote |-> TRUE,
              called |-> TRUE, text |-> answer.text, exc |-> None, raised |-> None,
              printed |-> {"Receipt processed and saved to data/grocery_receipt.md"}]

(***************************************************************************)
(* Lines 108-134: load the receipt                                         *)
(***************************************************************************)
\* Variant: lines 121-124 left out.
CreateIfMissing_Never(md) == md

\* Lines 121-124: the file is created empty if it does not exist.
CreateIfMissing(md) == IF md = Absent THEN "" ELSE md

\* Lines 118-134, entered when receipt_markdown is falsy: the content of
\* grocery_receipt.md afterwards, the value bound to receipt_markdown, what
\* was printed and whether the file was written.  Whatever is raised is
\* caught at line 132.
LoadMarkdownFile(md) ==
    LET content == CreateIfMissing(md)
        created == content # md
        made == IF created THEN {"Created empty grocery_receipt.md file"} ELSE {}
    IN  IF OpenAndRead(content) # None
          THEN [md |-> content, value |-> "", wrote |-> created,
                printed |-> made \cup {"Error reading markdown file"}]
        ELSE [md |-> content, value |-> markdown(content), wrote |-> created,
              printed |-> made \cup
                  (IF markdown(content) # ""
                     THEN {"Receipt loaded successfully from markdown!"}
                     ELSE {"Warning: grocery_receipt.md is empty"})]

\* Lines 109-134 as a whole.
LoadReceiptResult(image, answer, md) ==
    LET p == IF image # Absent
               THEN process_receipt_image(image, answer, md)
               ELSE [ret |-> "", md |-> md, wrote |-> FALSE, called |-> FALSE,
                     text |-> None, exc |-> None, raised |-> None, printed |-> {}]
        found == IF image # Absent THEN {"Found receipt image, processing..."} ELSE {}
        note == IF image # Absent /\ Falsy(p.ret)
                  THEN {"Failed to process receipt image, checking for markdown file..."}
                  ELSE {}
        m == LoadMarkdownFile(p.md)
        seen == [exc |-> p.exc, text |-> p.text]
    IN  IF p.raised # None
          THEN [md |-> p.md, value |-> None, raised |-> p.raised, seen |-> seen,
                called |-> p.called, wrote1 |-> p.wrote, wrote2 |-> FALSE,
                printed |-> found]
        ELSE IF Falsy(p.ret)
          THEN [md |-> m.md, value |-> m.value, raised |-> None, seen |-> seen,
                called |-> p.called, wrote1 |-> p.wrote, wrote2 |-> m.wrote,
                printed |-> found \cup p.printed \cup note \cup m.printed]
        ELSE [md |-> p.md, value |-> p.ret, raised |-> None, seen |-> seen,
              called |-> p.called, wrote1 |-> p.wrote, wrote2 |-> FALSE,
              printed |-> found \cup p.printed]

LoadReceipt ==
    /\ pc = "load_receipt"
    /\ \E answer \in VisionAnswers :
        LET r == LoadReceiptResult(files[receipt_image_path], answer,
                                   files[markdown_path])
            w1 == IF r.wrote1 THEN Append(writes, markdown_path) ELSE writes
        IN  /\ files' = [files EXCEPT ![markdown_path] = r.md]
            /\ receipt_markdown' = r.value
            /\ ingest' = r.seen
            /\ log' = log \cup r.printed
            /\ writes' = IF r.wrote2 THEN Append(w1, markdown_path) ELSE w1
            /\ calls' = IF r.called THEN Append(calls, "vision_model") ELSE calls
            /\ IF r.raised # None
                 THEN Crash(r.raised)
                 ELSE pc' = "reload" /\ error' = error
    /\ UNCHANGED <<environ, dotenv, GOOGLE_API_KEY, data_dir, expense_history,
                   failed, initial>>
    /\ UNCHANGED pipelineVars

(***************************************************************************)
(* Lines 174-176: the receipt is read again from grocery_receipt.md        *)
(***************************************************************************)
ReloadReceipt ==
    /\ pc = "reload"
    /\ LET exc == OpenAndRead(files[markdown_path]) IN
        IF exc # None
          THEN /\ Crash(exc)
               /\ UNCHANGED <<receipt_markdown, log>>
          ELSE /\ receipt_markdown' = markdown(files[markdown_path])
               /\ log' = log \cup {"Receipt loaded successfully!"}
               /\ pc' = "create_tasks"
               /\ error' = error
    /\ UNCHANGED <<environ, dotenv, GOOGLE_API_KEY, data_dir, files,
                   expense_history, writes, calls, ingest, failed, initial>>
    /\ UNCHANGED pipelineVars

(***************************************************************************)
(* Lines 319-494: the five tasks                                           *)
(***************************************************************************)
\* context: the tasks whose output the task is given; output_file: the path
\* the task's raw output is written to, or None; async_execution is not
\* passed by any Task(...) call and keeps its default.
read_receipt_task ==
    [name |-> "read_receipt_task", context |-> <<>>,
     output_file |-> None, async_execution |-> FALSE]

expiration_date_search_task ==
    [name |-> "expiration_date_search_task", context |-> <<"read_receipt_task">>,
     output_file |-> None, async_execution |-> FALSE]

grocery_tracking_task ==
    [name |-> "grocery_tracking_task", context |-> <<"expiration_date_search_task">>,
     output_file |-> grocery_tracker_path, async_execution |-> FALSE]

recipe_recommendation_task ==
    [name |-> "recipe_recommendation_task", context |-> <<"grocery_tracking_task">>,
     output_file |-> recipe_recommendation_path, async_execution |-> FALSE]

\* Variant: the expense task chained to the task listed before it.
expense_tracking_task_chained ==
    [name |-> "expense_tracking_task", context |-> <<"recipe_recommendation_task">>,
     output_file |-> expense_history_path, async_execution |-> FALSE]

expense_tracking_task ==
    [name |-> "expense_tracking_task", context |-> <<"read_receipt_task">>,
     output_file |-> expense_history_path, async_execution |-> FALSE]

\* Variant: the last two tasks listed in the other order.
crew_tasks_swapped ==
    <<read_receipt_task, expiration_date_search_task, grocery_tracking_task,
      expense_tracking_task, recipe_recommendation_task>>

\* Lines 509-515: Crew(tasks=[...])
crew_tasks ==
    <<read_receipt_task, expiration_date_search_task, grocery_tracking_task,
      recipe_recommendation_task, expense_tracking_task>>

NumTasks == Len(crew_tasks)

TaskNamed(n) == CHOOSE t \in {crew_tasks[i] : i \in 1..NumTasks} : t.name = n

\* Raw texts the LLM may answer a task with.  A task's agent is given the
\* task's description, its expected_output and its context; none of the
\* five embeds the variable expense_history or the history file.
LLMOutputs(n) ==
    CASE n = "read_receipt_task" ->
            {"{\"items\": [], \"date_of_purchase\": \"2024-01-01\"}",
             "{\"items\": [{\"item_name\": \"milk\"}], \"date_of_purchase\": \"2024-01-01\"}"}
      [] n = "expiration_date_search_task" ->
            {"{\"items\": [{\"item_name\": \"milk\", \"expiration_date\": \"2024-01-08\"}]}"}
      [] n = "grocery_tracking_task" ->
            {"{\"items\": [{\"item_name\": \"milk\", \"count\": 1}]}"}
      [] n = "recipe_recommendation_task" ->
            {"{\"recipes\": [], \"restock_recommendations\": []}",
             "{\"recipes\": [{\"recipe_name\": \"custard\"}], \"restock_recommendations\": []}"}
      [] n = "expense_tracking_task" ->
            {ReportText(a) : a \in ReportAmounts} \cup {"Here is the report: total 4"}

\* The messages printed at lines 204, 228, 249, 272, 317, 342, 367, 395,
\* 437, 460 and 496, after each agent, tool and task is created.
CreationMessages ==
    {"Receipt Interpreter Agent created successfully!",
     "Expiration Date Search Web Tool created successfully!",
     "Expiration Date Estimation Agent created successfully!",
     "Grocery Tracker Agent created successfully!",
     "Grocery Recipe Recommendation Agent created successfully!",
     "Read Receipt Task created successfully!",
     "Expiration Date Search Task created successfully!",
     "Grocery Tracking Task created successfully!",
     "Recipe Recommendation Task created successfully!",
     "Expense Tracking Agent created successfully!",
     "Expense Tracking Task created successfully!"}

\* Lines 182-517: agents, tools, tasks and the crew are created, each
\* creation announced on the console; the f-string of line 323 embeds
\* receipt_markdown in read_receipt_task.
CreateTasks ==
    /\ pc = "create_tasks"
    /\ description' = receipt_markdown
    /\ log' = log \cup CreationMessages
    /\ pc' = "kickoff"
    /\ UNCHANGED <<environ, dotenv, GOOGLE_API_KEY, data_dir, files,
                   expense_history, receipt_markdown, started, active, output,
                   consumed, attempts, error, writes, calls, ingest, failed, initial>>

(***************************************************************************)
(* Lines 519-520: crew.kickoff(), the sequential process                   *)
(***************************************************************************)
\* The context handed to a task: the raw outputs of its context tasks.
ContextOf(task) ==
    [i \in 1..Len(task.context) |->
        [task |-> task.context[i], raw |-> output[task.context[i]]]]

\* The crew waits for every running task before it starts a task, unless
\* the running task was declared async_execution.
MayStart(task) ==
    /\ \A n \in active : TaskNamed(n).async_execution
    /\ \A i \in 1..Len(task.context) : output[task.context[i]] # None

\* Variant: a failed task is executed once more.
RetryOnFailure_Once(n) == TRUE

\* What the script does when the execution of a task raises: nothing
\* encloses crew.kickoff(), so the exception ends the script.
RetryOnFailure(n) == FALSE

StartTask ==
    /\ pc = "kickoff"
    /\ Len(started) < NumTasks
    /\ LET task == crew_tasks[Len(started) + 1] IN
        /\ MayStart(task)
        /\ started' = Append(started, task.name)
        /\ active' = active \cup {task.name}
        /\ consumed' = [consumed EXCEPT ![task.name] = ContextOf(task)]
        /\ attempts' = [attempts EXCEPT ![task.name] = @ + 1]
        /\ calls' = Append(calls, "llm")
    /\ UNCHANGED <<pc, environ, dotenv, GOOGLE_API_KEY, data_dir, files,
                   expense_history, receipt_markdown, description, output,
                   error, log, writes, ingest, failed, initial>>

\* The task's agent returns: the raw output is kept and, if the task has
\* an output_file, written to it (replacing the file).
FinishTask ==
    /\ pc = "kickoff"
    /\ \E n \in active : \E raw \in LLMOutputs(n) :
        LET task == TaskNamed(n)
            last == Len(started) = NumTasks /\ active = {n}
        IN  /\ output' = [output EXCEPT ![n] = raw]
            /\ active' = active \ {n}
            /\ IF task.output_file # None
                 THEN /\ files' = [files EXCEPT ![task.output_file] = raw]
                      /\ writes' = Append(writes, task.output_file)
                 ELSE UNCHANGED <<files, writes>>
            /\ pc' = IF last THEN "done" ELSE pc
            /\ log' = IF last THEN log \cup {"Crew kicked off successfully!"} ELSE log
    /\ UNCHANGED <<environ, dotenv, GOOGLE_API_KEY, data_dir, expense_history,
                   receipt_markdown, description, started, consumed, attempts,
                   error, calls, ingest, failed, initial>>

\* The execution of a task raises (LLM or web-search request failed).
FailTask ==
    /\ pc = "kickoff"
    /\ \E n \in active :
        /\ failed' = n
        /\ IF RetryOnFailure(n) /\ attempts[n] < 2
          THEN /\ attempts' = [attempts EXCEPT ![n] = @ + 1]
               /\ calls' = Append(calls, "llm")
               /\ UNCHANGED <<pc, error, active>>
          ELSE /\ Crash("TaskExecutionError")
               /\ active' = active \ {n}
               /\ UNCHANGED <<attempts, calls>>
    /\ UNCHANGED <<environ, dotenv, GOOGLE_API_KEY, data_dir, files,
                   expense_history, receipt_markdown, description, started,
                   output, consumed, log, writes, ingest, initial>>

Next ==
    \/ LoadDotenv
    \/ CheckKey
    \/ Mkdir
    \/ InitExpenseHistory
    \/ LoadReceipt
    \/ ReloadReceipt
    \/ CreateTasks
    \/ StartTask
    \/ FinishTask
    \/ FailTask

Spec == Init /\ [][Next]_vars

(***************************************************************************)
(* Properties                                                              *)
(***************************************************************************)
Range(seq) == {seq[i] : i \in 1..Len(seq)}

HistoryAtLaunch == initial.files[expense_history_path]
MarkdownAtLaunch == initial.files[markdown_path]
ImageAtLaunch == initial.files[receipt_image_path]

\* grocery_receipt.md as found at launch, empty if there was none.
MarkdownFileKept == IF MarkdownAtLaunch = Absent THEN "" ELSE MarkdownAtLaunch

\* The script ended at line 29.
KeyRejected == pc = "crashed" /\ error = "ValueError"

\* Lines 83-106 have been executed (to their end or to an exception).
PastHistoryInit ==
    pc \notin {"load_dotenv", "check_key", "mkdir", "init_history"} /\ ~KeyRejected

\* Lines 108-134 have been executed.
PastLoadReceipt ==
    PastHistoryInit /\ pc # "load_receipt" /\ expense_history # Unset

ExpenseReportWritten == output["expense_tracking_task"] # None

\* The history file holds the default structure and so does the variable.
HistoryIsDefault ==
    /\ expense_history = default_expense_history
    /\ ~ExpenseReportWritten =>
          /\ files[expense_history_path] = json_dump_default
          /\ json_load(files[expense_history_path]).ok
          /\ json_load(files[expense_history_path]).value = default_expense_history

\* C1: when data/expense_history.json is missing or has size 0 at launch,
\* start-up writes the default structure to it and binds expense_history to
\* the default structure.
C1_DefaultHistoryCreated ==
    (PastHistoryInit /\ HistoryAtLaunch \in {Absent, ""}) =>
        /\ HistoryIsDefault
        /\ expense_history_path \in Range(writes)

C1_Witness ==
    /\ pc = "load_receipt"
    /\ HistoryAtLaunch = Absent
    /\ files[expense_history_path] = json_dump_default

\* C2: when data/expense_history.json exists, is not empty and does not
\* load as JSON, start-up does not end with an error: it replaces the file
\* by the default structure, binds expense_history to it and goes on.
C2_MalformedHistoryReplaced ==
    (PastHistoryInit /\ HistoryAtLaunch \notin {Absent, ""}
        /\ ~json_load(HistoryAtLaunch).ok) =>
        /\ HistoryIsDefault
        /\ expense_history_path \in Range(writes)
        /\ ~(pc = "crashed" /\ expense_history = Unset)

\* C3: with GOOGLE_API_KEY absent from or empty in the environment the
\* script reads at line 27, it ends with ValueError and has created or
\* written nothing, called no external service and started no task.
C3_FailFastWithoutKey ==
    (pc \notin {"load_dotenv", "check_key"} /\ environ \in {Absent, ""}) =>
        /\ pc = "crashed"
        /\ error = "ValueError"
        /\ data_dir = initial.data_dir
        /\ files = initial.files
        /\ writes = <<>>
        /\ calls = <<>>
        /\ started = <<>>
        /\ expense_history = Unset

C3_Witness ==
    /\ pc = "crashed"
    /\ environ = ""
    /\ ~initial.data_dir

\* The order of the five stages: read receipt, expiration date estimation,
\* grocery tracking, recipe recommendation, expense tracking.
Order == <<"read_receipt_task", "expiration_date_search_task",
           "grocery_tracking_task", "recipe_recommendation_task",
           "expense_tracking_task">>

\* C4: the tasks are started in the listed order, a task is started only
\* when the one listed before it has finished with an output, and at most
\* one task is being executed at any time.
C4_SequentialOrder ==
    /\ Cardinality(active) <= 1
    /\ Len(started) <= Len(Order)
    /\ started = SubSeq(Order, 1, Len(started))
    /\ \A i \in 2..Len(started) : output[started[i - 1]] # None
    /\ \A n \in active : n = started[Len(started)]
    /\ \A n \in TaskNames : output[n] # None => n \in Range(started)

C4_Witness ==
    /\ Len(started) = 5
    /\ active = {"expense_tracking_task"}
    /\ output["recipe_recommendation_task"] # None

\* The entries of a history document: its expenses, its categories and its
\* monthly summaries.
Entries(doc) ==
    (IF "expenses" \in DOMAIN doc
       THEN {<<"expenses", e>> : e \in Range(doc.expenses)} ELSE {})
    \cup (IF "categories" \in DOMAIN doc
            THEN {<<"categories", e>> : e \in doc.categories} ELSE {})
    \cup (IF "monthly_summaries" \in DOMAIN doc
            THEN {<<"monthly_summaries", e>> : e \in doc.monthly_summaries} ELSE {})

\* The entries a file holds; none if it does not load.
EntriesOfFile(text) ==
    IF json_load(text).ok THEN Entries(json_load(text).value) ELSE {}

\* C5: after a run that completes all five tasks, the history file still
\* holds every expense, category and monthly summary of the history that
\* was loaded at start.
C5_HistoryPreserved ==
    pc = "done" =>
        Entries(expense_history) \subseteq EntriesOfFile(files[expense_history_path])

\* The context a task gets when it is given the output of one task.
OutputOf(n) == <<[task |-> n, raw |-> output[n]]>>

\* C6: every task after the first is given the output of the task
\* executed immediately before it.
C6_LinearChain ==
    \A i \in 2..Len(started) : consumed[started[i]] = OutputOf(started[i - 1])

\* C6 as amended: the second, third and fourth task are given the output
\* of the task executed immediately before them; the fifth (expense
\* tracking) is given the output of the first (read receipt); the first is
\* given no context.
C6_ContextChain ==
    \A i \in 1..Len(started) :
        consumed[started[i]] =
            IF i = 1 THEN <<>>
            ELSE IF started[i] = "expense_tracking_task"
                THEN OutputOf("read_receipt_task")
            ELSE OutputOf(started[i - 1])

C6_Witness ==
    /\ pc = "done"
    /\ consumed["expense_tracking_task"] # OutputOf("recipe_recommendation_task")
    /\ consumed["recipe_recommendation_task"] = OutputOf("grocery_tracking_task")

\* The receipt image exists and processing it raised.
ImageProcessingRaised == ImageAtLaunch # Absent /\ ingest.exc # None

\* C7: when the receipt image exists and processing it raises, the error is
\* caught and logged, the script goes on, and the receipt content is the
\* empty string.
C7_FallsBackToEmptyString ==
    (PastLoadReceipt /\ ImageProcessingRaised
        /\ pc \in {"reload", "create_tasks", "kickoff", "done"}) =>
        /\ "Error processing receipt image" \in log
        /\ receipt_markdown = ""

\* C7 as amended: when the receipt image exists and processing it raises,
\* the error is caught and logged and does not end the script;
\* grocery_receipt.md is left as it was (created empty if it was absent) and
\* the receipt content is the rendering of that file, the empty string if
\* the file cannot be read; in that last case the reload of line 175 ends
\* the script.
C7_FallsBackToMarkdownFile ==
    (pc \notin {"load_dotenv", "check_key", "mkdir", "init_history", "load_receipt"}
        /\ ImageProcessingRaised) =>
        /\ "Error processing receipt image" \in log
        /\ error \notin {"UnidentifiedImageError", "VisionCallError"}
        /\ files[markdown_path] = MarkdownFileKept
        /\ pc # "crashed" =>
              receipt_markdown =
                  IF OpenAndRead(files[markdown_path]) = None
                    THEN markdown(files[markdown_path]) ELSE ""
        /\ (pc = "crashed" /\ started = <<>>) =>
              /\ ~Decodable(files[markdown_path])
              /\ error = "UnicodeDecodeError"
              /\ receipt_markdown = ""

C7_Witness ==
    /\ pc = "kickoff"
    /\ ingest.exc = "VisionCallError"
    /\ MarkdownAtLaunch = "milk 2"
    /\ receipt_markdown = "<p>milk 2</p>"

\* C8: whenever a call to an external service fails (the vision model
\* during ingestion, or the execution of a task), the error ends the run,
\* nothing is retried and no later task is executed.
C8_EveryCallFailurePropagates ==
    /\ (ingest.exc = "VisionCallError") =>
          (pc = "crashed" /\ error = "VisionCallError" /\ started = <<>>)
    /\ failed # None =>
          (pc = "crashed" /\ error = "TaskExecutionError"
           /\ attempts[failed] = 1 /\ started[Len(started)] = failed)

\* C8 as amended: a failed vision model call is caught and logged and the
\* run continues; when the execution of a task raises, the error ends the
\* run, the task has been executed once and has no output, no output file
\* is written for it and no later task is started.
C8_OnlyTaskFailuresPropagate ==
    /\ (ingest.exc = "VisionCallError") =>
          /\ error # "VisionCallError"
          /\ "Error processing receipt image" \in log
          /\ pc \in {"reload", "create_tasks", "kickoff", "done", "crashed"}
    /\ failed # None =>
          /\ pc = "crashed"
          /\ error = "TaskExecutionError"
          /\ active = {}
          /\ attempts[failed] = 1
          /\ \A n \in TaskNames : attempts[n] <= 1
          /\ output[failed] = None
          /\ started[Len(started)] = failed
          /\ Len(calls) = Len(started) + (IF ingest.exc = "VisionCallError"
                                             \/ ingest.text # None THEN 1 ELSE 0)

C8_Witness ==
    /\ failed = "grocery_tracking_task"
    /\ ingest.exc = "VisionCallError"
    /\ pc = "crashed"

\* C9: with the image present and a non-empty vision answer, the answer
\* replaces grocery_receipt.md and the receipt embedded in the first task
\* is its rendering; otherwise (image absent, or processing yields
\* nothing) the embedded receipt is the rendering of the grocery_receipt.md
\* found at launch, and that file is not modified.
C9_ReceiptSource ==
    (description # None /\ Decodable(MarkdownAtLaunch)) =>
        IF ImageAtLaunch # Absent /\ ~Falsy(ingest.text)
          THEN /\ files[markdown_path] = ingest.text
               /\ description = markdown(ingest.text)
          ELSE /\ files[markdown_path] = MarkdownFileKept
               /\ description = markdown(MarkdownFileKept)

\* C10: whenever the script is about to reload grocery_receipt.md at line
\* 175 the file exists, and the script never ends with FileNotFoundError.
C10_ReloadFindsFile ==
    /\ pc = "reload" => files[markdown_path] # Absent
    /\ pc = "reload" => OpenAndRead(files[markdown_path]) # "FileNotFoundError"
    /\ error # "FileNotFoundError"

C10_Witness ==
    /\ pc = "reload"
    /\ MarkdownAtLaunch = Absent
    /\ ingest.exc = "UnidentifiedImageError"
    /\ files[markdown_path] = ""

\* Number of times a path was created or written.
TimesWritten(path) == Cardinality({i \in 1..Len(writes) : writes[i] = path})

\* What C11 says of the states between the end of start-up and the end of
\* the expense-tracking task.
StartupFrame ==
    /\ json_load(HistoryAtLaunch).ok =>
          /\ files[expense_history_path] = HistoryAtLaunch
          /\ expense_history = json_load(HistoryAtLaunch).value
          /\ TimesWritten(expense_history_path) = 0
    /\ json_load(files[expense_history_path]).ok
    /\ expense_history = json_load(files[expense_history_path]).value
    /\ TimesWritten(expense_history_path) <= 1

\* C11: a history file that exists, is not empty and loads as JSON is left
\* unchanged by start-up and expense_history equals its content; in every
\* case the file holds valid JSON after start-up, and it is not written
\* again before the expense-tracking task writes its output.
C11_StartupFrame ==
    (PastHistoryInit /\ ~ExpenseReportWritten) => StartupFrame

\* C11 for a history file that can be read as text (absent, empty, JSON or
\* not JSON): the part of the claim that the undecodable file of C2 does
\* not reach.
C11_FrameWhenReadable ==
    (PastHistoryInit /\ ~ExpenseReportWritten /\ Decodable(HistoryAtLaunch)) =>
        StartupFrame

C11_ReadableWitness ==
    /\ Len(started) = 5
    /\ active = {"expense_tracking_task"}
    /\ HistoryAtLaunch = HistoryText(2)
    /\ files[recipe_recommendation_path] # Absent
    /\ files[expense_history_path] = HistoryText(2)
====
